---- MODULE Spec2Model ----
(***************************************************************************)
(* Social App API: the HTTP route layer of main.py over the document       *)
(* store, with the request validation of schemas.py.  Every request runs   *)
(* in a slot; the handlers are split at their store calls, so concurrent   *)
(* requests interleave between two calls to the store.                     *)
(***************************************************************************)
EXTENDS Integers, Sequences, FiniteSets, TLC

\* ------------------------------------------------------------------ bounds
MaxSlots == 2        \* requests in flight at the same time
MaxRequests == 3     \* requests one run serves
MaxTarget == 2       \* like requests name the first MaxTarget ids of the store
MaxClock == 1        \* ticks of the clock in one run
MaxLimit == 2        \* largest explicit ?limit= a request carries
MaxOtherColls == 10  \* collections of the database that are not user/post

\* ------------------------------------------------------- program constants
OidBytes == 12           \* bson.ObjectId: 12 bytes, 24 hex characters
CollectionsShown == 10   \* collections[:10]
ErrShown == 50           \* str(e)[:50]
DefaultLimit == 20       \* limit: int = 20
ContentMax == 1000       \* Post.content max_length
BioMax == 280            \* User.bio max_length

VARIABLES
    dbUp,    \* database.db is not None (set once at process start)
    user,    \* collection "user": documents in insertion order
    post,    \* collection "post": documents in insertion order
    nextOid, \* counter of the next ObjectId the store assigns
    now,     \* the clock created_at and localTime are read from
    req,     \* per slot: the request it runs, its position, locals, response
    started, \* requests served so far
    hist     \* history: who inserted a document, the like_count a post was
             \* stored with, the like requests that updated it and returned
             \* it (likeOk), the seed requests that returned

vars == <<dbUp, user, post, nextOid, now, req, started, hist>>

Slots == 1..MaxSlots

\* ---------------------------------------------------------------- helpers
Min(a, b) == IF a < b THEN a ELSE b

Abs(n) == IF n < 0 THEN -n ELSE n

Take(s, n) == SubSeq(s, 1, Min(n, Len(s)))

\* Optional[T]: <<>> is None / absent, <<v>> is the value v
None == <<>>

Some(v) == <<v>>

\* ------------------------------------------------------- bson.ObjectId
HexDigits == <<"0", "1", "2", "3", "4", "5", "6", "7", "8", "9",
               "a", "b", "c", "d", "e", "f">>

Lower(c) ==
    CASE c = "A" -> "a" [] c = "B" -> "b" [] c = "C" -> "c"
      [] c = "D" -> "d" [] c = "E" -> "e" [] c = "F" -> "f"
      [] OTHER -> c

IsHex(c) == \E v \in 1..16 : HexDigits[v] = Lower(c)

HexVal(c) == (CHOOSE v \in 1..16 : HexDigits[v] = Lower(c)) - 1

\* ObjectId(s) raises InvalidId unless s is 24 hex characters
ObjectIdValid(s) ==
    /\ Len(s) = 2 * OidBytes
    /\ \A i \in 1..Len(s) : IsHex(s[i])

\* ObjectId(s): the 12 bytes the 24 hex characters encode
ObjectId(s) ==
    [j \in 1..OidBytes |-> 16 * HexVal(s[2 * j - 1]) + HexVal(s[2 * j])]

\* str(oid): 24 lower-case hex characters
OidStr(b) ==
    [i \in 1..(2 * OidBytes) |->
        IF i % 2 = 1 THEN HexDigits[(b[(i + 1) \div 2] \div 16) + 1]
                     ELSE HexDigits[(b[i \div 2] % 16) + 1]]

\* the n-th ObjectId the store assigns (its trailing counter bytes)
NewOid(n) ==
    [j \in 1..OidBytes |->
        IF j = OidBytes THEN n % 256
        ELSE IF j = OidBytes - 1 THEN 171 ELSE 0]

\* ------------------------------------------------------- schemas.py
\* EmailStr: one "@", a non-empty local part, a dotted domain with no empty label
AtCount(e) == Cardinality({i \in 1..Len(e) : e[i] = "@"})

ValidEmail(e) ==
    /\ AtCount(e) = 1
    /\ LET at == CHOOSE i \in 1..Len(e) : e[i] = "@"
       IN  /\ at > 1
           /\ at < Len(e)
           /\ e[at + 1] # "."
           /\ e[Len(e)] # "."
           /\ \E i \in (at + 1)..Len(e) : e[i] = "."
           /\ \A i \in (at + 1)..(Len(e) - 1) : ~(e[i] = "." /\ e[i + 1] = ".")

\* HttpUrl: scheme http or https and a host; a URL is <<scheme, host>>
ValidHttpUrl(u) == u[1] \in {"http", "https"} /\ u[2] # ""

\* class User: name and email required, avatar_url and bio optional
ValidUserMutNoEmail(p) ==
    /\ p.name # None
    /\ p.email # None
    /\ (IF p.avatar_url = None THEN TRUE ELSE ValidHttpUrl(p.avatar_url[1]))
    /\ (IF p.bio = None THEN TRUE ELSE Len(p.bio[1]) <= BioMax)

ValidUser(p) ==
    /\ p.name # None
    /\ p.email # None
    /\ ValidEmail(p.email[1])
    /\ (IF p.avatar_url = None THEN TRUE ELSE ValidHttpUrl(p.avatar_url[1]))
    /\ (IF p.bio = None THEN TRUE ELSE Len(p.bio[1]) <= BioMax)

\* the validated User record
UserRecord(p) ==
    [name |-> p.name[1], email |-> p.email[1],
     avatar_url |-> p.avatar_url, bio |-> p.bio]

\* class Post: user_id and content (1..1000 characters) required,
\* like_count and comment_count integers >= 0
ValidPost(p) ==
    /\ p.user_id # None
    /\ p.content # None
    /\ Len(p.content[1]) >= 1
    /\ Len(p.content[1]) <= ContentMax
    /\ (IF p.image_url = None THEN TRUE ELSE ValidHttpUrl(p.image_url[1]))
    /\ (IF p.like_count = None THEN TRUE ELSE p.like_count[1] >= 0)
    /\ (IF p.comment_count = None THEN TRUE ELSE p.comment_count[1] >= 0)

\* the validated Post record: like_count and comment_count default to 0
PostRecord(p) ==
    [user_id |-> p.user_id[1], content |-> p.content[1],
     image_url |-> p.image_url,
     like_count |-> IF p.like_count = None THEN 0 ELSE p.like_count[1],
     comment_count |-> IF p.comment_count = None THEN 0 ELSE p.comment_count[1]]

\* ------------------------------------------------- the document store
\* create_document(collection_name, record): the record with its new _id and
\* a creation timestamp, appended to the collection
CreateDocument(coll, rec, oid, t) ==
    Append(coll, ("_id" :> oid) @@ ("created_at" :> t) @@ rec)

Matches(coll, oid) == {i \in DOMAIN coll : coll[i]["_id"] = oid}

\* collection.find_one({"_id": oid}): the document, or None
FindOneMutAny(coll, oid) ==
    IF coll = <<>> THEN None ELSE Some(coll[1])

FindOne(coll, oid) ==
    IF Matches(coll, oid) = {} THEN None
    ELSE Some(coll[CHOOSE i \in Matches(coll, oid) :
                      \A j \in Matches(coll, oid) : i <= j])

\* {"$inc": {"like_count": 1}, "$set": {"updated_at": t}} on one document
LikeUpdateMutSet(d, t) ==
    ("updated_at" :> t) @@ [d EXCEPT !.like_count = 1]

LikeUpdateMutContent(d, t) ==
    ("updated_at" :> t) @@ [d EXCEPT !.like_count = @ + 1, !.content = ""]

LikeUpdate(d, t) ==
    ("updated_at" :> t) @@ [d EXCEPT !.like_count = @ + 1]

\* collection.update_one({"_id": oid}, update): the first matching document
\* is updated, no document is inserted when none matches
UpdateOneMutMany(coll, oid, t) ==
    [i \in DOMAIN coll |-> LikeUpdate(coll[i], t)]

UpdateOne(coll, oid, t) ==
    [i \in DOMAIN coll |->
        IF i \in Matches(coll, oid) /\ \A j \in Matches(coll, oid) : i <= j
        THEN LikeUpdate(coll[i], t)
        ELSE coll[i]]

SortedDescMutAsc(coll) ==
    {[i \in DOMAIN coll |-> coll[p[i]]] : p \in
        {q \in Permutations(DOMAIN coll) :
            \A i \in DOMAIN coll : \A j \in DOMAIN coll :
                i < j => coll[q[i]]["created_at"] <= coll[q[j]]["created_at"]}}

\* cursor.sort("created_at", -1): every order of the documents that is
\* non-increasing in created_at (documents with equal stamps come in any order)
SortedDesc(coll) ==
    {[i \in DOMAIN coll |-> coll[p[i]]] : p \in
        {q \in Permutations(DOMAIN coll) :
            \A i \in DOMAIN coll : \A j \in DOMAIN coll :
                i < j => coll[q[i]]["created_at"] >= coll[q[j]]["created_at"]}}

\* cursor.limit(n): 0 is no limit, a negative n is a limit of -n
Limit(s, n) == IF n = 0 THEN s ELSE Take(s, Abs(n))

\* db.list_collection_names(): the collections that hold a document, then
\* the n other collections of the database
CollectionNames(n) ==
    (IF user # <<>> THEN <<"user">> ELSE <<>>)
    \o (IF post # <<>> THEN <<"post">> ELSE <<>>)
    \o [i \in 1..n |-> "c" \o ToString(i)]

\* ---------------------------------------------------------- main.py
\* doc_to_out: _id becomes the string id, user_id / post_id are stringified
\* (they are strings already)
DocToOut(d) ==
    [k \in (DOMAIN d \ {"_id"}) \cup {"id"} |->
        IF k = "id" THEN OidStr(d["_id"]) ELSE d[k]]

\* PostOut(**out): the declared fields, the others are dropped
PostOut(o) ==
    [k \in {"id", "user_id", "content", "image_url",
            "like_count", "comment_count"} |-> o[k]]

\* UserOut(**out)
UserOut(o) ==
    [k \in {"id", "name", "email", "avatar_url", "bio"} |-> o[k]]

\* ------------------------------------------------------------ requests
Idle == [op |-> "none", pc |-> "idle", arg |-> <<>>, loc |-> <<>>,
         resp |-> [code |-> 0, body |-> <<>>], wrote |-> <<>>, acc |-> 0]

\* no response is waiting to be sent: a finished request leaves its slot
\* before any other step is taken
Quiet == \A r \in Slots : req[r].pc # "done"

\* a new request takes the first free slot
Free(r) ==
    /\ Quiet
    /\ started < MaxRequests
    /\ req[r].pc = "idle"
    /\ \A q \in Slots : q < r => req[q].pc # "idle"

\* the handler returns
Return(q, c, b) == [q EXCEPT !.pc = "done", !.resp = [code |-> c, body |-> b]]

\* a request that ends in its first step
Answer(r, o, a, n, c, b) ==
    req' = [req EXCEPT ![r] =
               Return([Idle EXCEPT !.op = o, !.arg = a, !.acc = n], c, b)]

\* the documents of new that old does not hold as they are, in order
Changed(old, new) ==
    {i \in DOMAIN new : i > Len(old) \/ new[i] # old[i]}

Writes(name, old, new) ==
    [k \in 1..Cardinality(Changed(old, new)) |->
        <<name, new[CHOOSE i \in Changed(old, new) :
                      Cardinality({j \in Changed(old, new) : j <= i}) = k]["_id"]>>]

\* ------------------------------------------------------------- inputs
U1 == <<"u", "1">>

BadUrl == <<"", "nowhere">>

GoodEmail == <<"al", "@", "example", ".", "com">>

BasePost == [user_id |-> Some(U1), content |-> Some("hi"), image_url |-> None,
             like_count |-> None, comment_count |-> None]

PostPayloads ==
    {BasePost,
     [BasePost EXCEPT !.user_id = None],
     [BasePost EXCEPT !.content = None],
     [BasePost EXCEPT !.content = Some("")],
     [BasePost EXCEPT !.image_url = Some(BadUrl)],
     [BasePost EXCEPT !.like_count = Some(1)],
     [BasePost EXCEPT !.like_count = Some(-1)],
     [BasePost EXCEPT !.comment_count = Some(-1)]}

BaseUser == [name |-> Some("Al"), email |-> Some(GoodEmail),
             avatar_url |-> None, bio |-> None]

UserPayloads ==
    {BaseUser,
     [BaseUser EXCEPT !.name = None],
     [BaseUser EXCEPT !.name = Some("")],
     [BaseUser EXCEPT !.email = None],
     [BaseUser EXCEPT !.email = Some(<<"al", ".", "example", ".", "com">>)],
     [BaseUser EXCEPT !.email = Some(<<"al", "@", "example">>)],
     [BaseUser EXCEPT !.avatar_url = Some(BadUrl)]}

Upper(c) ==
    CASE c = "a" -> "A" [] c = "b" -> "B" [] c = "c" -> "C"
      [] c = "d" -> "D" [] c = "e" -> "E" [] c = "f" -> "F"
      [] OTHER -> c

\* post ids a like request carries: the first ids the store assigns (of a
\* post, of a user, not assigned yet), one in upper case, three malformed ones
LikeIds ==
    {OidStr(NewOid(n)) : n \in 1..MaxTarget}
    \cup {[i \in 1..(2 * OidBytes) |-> Upper(OidStr(NewOid(2))[i])]}
    \cup {<<"z">>, Tail(OidStr(NewOid(1))), [i \in 1..(2 * OidBytes) |-> "g"]}

Limits == (0..MaxLimit) \cup {DefaultLimit}

ErrMsgs == {<<"d", "o", "w", "n">>, [i \in 1..(ErrShown + 1) |-> "x"]}

\* the records seed_demo builds
DemoUser ==
    UserRecord([name |-> Some("Alex Johnson"),
                email |-> Some(<<"alex", "@", "example", ".", "com">>),
                avatar_url |-> None,
                bio |-> Some("Building a social app with AI")])

DemoPostMutAuthor(user_id, content) ==
    PostRecord([BasePost EXCEPT !.content = Some(content)])

DemoPost(user_id, content) ==
    PostRecord([BasePost EXCEPT !.user_id = Some(user_id),
                                !.content = Some(content)])

DemoContent1 == "Hello world! This is my first post on our new app."

DemoContent2 == "Loving these floating icons in the hero animation."

\* --------------------------------------------------------------- state
Init ==
    /\ dbUp = TRUE
    /\ user = <<>>
    /\ post = <<>>
    /\ nextOid = 1
    /\ now = 0
    /\ req = [r \in Slots |-> Idle]
    /\ started = 0
    /\ hist = [userBy |-> <<>>, postBy |-> <<>>, base |-> <<>>,
               likeOk |-> <<>>, seedOk |-> 0]

\* the process may have started with no connection: db is None
InitFault ==
    /\ dbUp \in BOOLEAN
    /\ user = <<>>
    /\ post = <<>>
    /\ nextOid = 1
    /\ now = 0
    /\ req = [r \in Slots |-> Idle]
    /\ started = 0
    /\ hist = [userBy |-> <<>>, postBy |-> <<>>, base |-> <<>>,
               likeOk |-> <<>>, seedOk |-> 0]

HistUser(who) == [hist EXCEPT !.userBy = Append(@, who)]

HistPost(who, rec) ==
    [hist EXCEPT !.postBy = Append(@, who),
                 !.base = Append(@, rec.like_count),
                 !.likeOk = Append(@, 0)]

Tick ==
    /\ Quiet
    /\ now < MaxClock
    /\ now' = now + 1
    /\ UNCHANGED <<dbUp, user, post, nextOid, req, hist, started>>

\* the response is sent, the slot is free again
Respond(r) ==
    /\ req[r].pc = "done"
    /\ req' = [req EXCEPT ![r] = Idle]
    /\ UNCHANGED <<dbUp, user, post, nextOid, now, hist, started>>

\* ------------------------------------------------------------ GET /
ReadRoot(r) ==
    /\ Free(r)
    /\ Answer(r, "root", <<>>, 0, 200, [message |-> "Social App API running"])
    /\ started' = started + 1
    /\ UNCHANGED <<dbUp, user, post, nextOid, now, hist>>

\* --------------------------------------------------------- GET /test
TestResponse(database, url, name, status, colls) ==
    [backend |-> "Running", database |-> database, database_url |-> url,
     database_name |-> name, connection_status |-> status,
     collections |-> colls]

\* os.getenv("DATABASE_URL") / ("DATABASE_NAME"): the configuration the
\* connection handle was built from
EnvSet == IF dbUp THEN "Set" ELSE "Not Set"

\* collections[:10]
ShownMutAll(names) == names

Shown(names) == Take(names, CollectionsShown)

\* db is None, or list_collection_names() returns the names
TestDatabase(r) ==
    /\ Free(r)
    /\ \E n \in {0, MaxOtherColls} :
          Answer(r, "test", <<>>, IF dbUp THEN 1 ELSE 0, 200,
                 IF dbUp
                 THEN TestResponse(<<"Connected & Working">>, Some(EnvSet),
                                   Some(EnvSet), "Connected",
                                   Shown(CollectionNames(n)))
                 ELSE TestResponse(<<"Available but not initialized">>, None,
                                   None, "Not Connected", <<>>))
    /\ started' = started + 1
    /\ UNCHANGED <<dbUp, user, post, nextOid, now, hist>>

\* list_collection_names() raises e
TestDatabaseRaises(r) ==
    /\ Free(r)
    /\ dbUp
    /\ \E e \in ErrMsgs :
          Answer(r, "test", <<>>, 1, 200,
                 TestResponse(<<"Connected but Error: ", Take(e, ErrShown)>>,
                              Some(EnvSet), Some(EnvSet), "Connected", <<>>))
    /\ started' = started + 1
    /\ UNCHANGED <<dbUp, user, post, nextOid, now, hist>>

\* --------------------------------------------------------- POST /seed
\* user_id = create_document("user", user)
SeedDemo(r) ==
    /\ Free(r)
    /\ dbUp
    /\ user' = CreateDocument(user, DemoUser, NewOid(nextOid), now)
    /\ nextOid' = nextOid + 1
    /\ hist' = HistUser("seed")
    /\ req' = [req EXCEPT ![r] =
                 [Idle EXCEPT !.op = "seed", !.pc = "seed_post1",
                              !.loc = OidStr(NewOid(nextOid)),
                              !.acc = 1,
                              !.wrote = Writes("user", user, user')]]
    /\ started' = started + 1
    /\ UNCHANGED <<dbUp, post, now>>

\* create_document("post", p1)
SeedPost1(r) ==
    /\ Quiet
    /\ req[r].pc = "seed_post1"
    /\ dbUp
    /\ post' = CreateDocument(post, DemoPost(req[r].loc, DemoContent1),
                              NewOid(nextOid), now)
    /\ nextOid' = nextOid + 1
    /\ hist' = HistPost("seed", DemoPost(req[r].loc, DemoContent1))
    /\ req' = [req EXCEPT ![r].pc = "seed_post2",
                          ![r].acc = @ + 1,
                          ![r].wrote = @ \o Writes("post", post, post')]
    /\ UNCHANGED <<dbUp, user, now, started>>

\* create_document("post", p2); return {"status": "ok", "user_id": user_id}
SeedPost2(r) ==
    /\ Quiet
    /\ req[r].pc = "seed_post2"
    /\ dbUp
    /\ post' = CreateDocument(post, DemoPost(req[r].loc, DemoContent2),
                              NewOid(nextOid), now)
    /\ nextOid' = nextOid + 1
    /\ hist' = [HistPost("seed", DemoPost(req[r].loc, DemoContent2))
                   EXCEPT !.seedOk = @ + 1]
    /\ req' = [req EXCEPT ![r] =
                 Return([req[r] EXCEPT !.acc = @ + 1,
                                       !.wrote = @ \o Writes("post", post, post')],
                        200, [status |-> "ok", user_id |-> req[r].loc])]
    /\ UNCHANGED <<dbUp, user, now, started>>

\* ------------------------------------------- GET /posts, GET /users
\* db["post"].find({}).sort("created_at", -1).limit(limit), each as PostOut
ListPosts(r, limit) ==
    /\ Free(r)
    /\ dbUp
    /\ \E s \in SortedDesc(post) :
          Answer(r, "list_posts", limit, 1, 200,
                 [i \in DOMAIN Limit(s, limit) |->
                     PostOut(DocToOut(Limit(s, limit)[i]))])
    /\ started' = started + 1
    /\ UNCHANGED <<dbUp, user, post, nextOid, now, hist>>

ListUsers(r, limit) ==
    /\ Free(r)
    /\ dbUp
    /\ \E s \in SortedDesc(user) :
          Answer(r, "list_users", limit, 1, 200,
                 [i \in DOMAIN Limit(s, limit) |->
                     UserOut(DocToOut(Limit(s, limit)[i]))])
    /\ started' = started + 1
    /\ UNCHANGED <<dbUp, user, post, nextOid, now, hist>>

\* ------------------------------------------------------- POST /posts
\* the body is validated as a Post before create_post runs (422 otherwise)
PostRejected(r, p) ==
    /\ Free(r)
    /\ ~ValidPost(p)
    /\ Answer(r, "create_post", p, 0, 422, "validation error")
    /\ started' = started + 1
    /\ UNCHANGED <<dbUp, user, post, nextOid, now, hist>>

\* new_id = create_document("post", post)
CreatePost(r, p) ==
    /\ Free(r)
    /\ ValidPost(p)
    /\ dbUp
    /\ post' = CreateDocument(post, PostRecord(p), NewOid(nextOid), now)
    /\ nextOid' = nextOid + 1
    /\ hist' = HistPost("create", PostRecord(p))
    /\ req' = [req EXCEPT ![r] =
                 [Idle EXCEPT !.op = "create_post", !.pc = "reread", !.arg = p,
                              !.loc = OidStr(NewOid(nextOid)),
                              !.acc = 1,
                              !.wrote = Writes("post", post, post')]]
    /\ started' = started + 1
    /\ UNCHANGED <<dbUp, user, now>>

\* doc = db["post"].find_one({"_id": ObjectId(new_id)}); PostOut(**doc_to_out(doc))
CreatePostFind(r) ==
    /\ Quiet
    /\ req[r].op = "create_post"
    /\ req[r].pc = "reread"
    /\ dbUp
    /\ LET doc == FindOne(post, ObjectId(req[r].loc))
       IN  req' = [req EXCEPT ![r] =
                     IF doc = None
                     THEN Return([req[r] EXCEPT !.acc = @ + 1], 500, "server error")
                     ELSE Return([req[r] EXCEPT !.acc = @ + 1], 200,
                                 PostOut(DocToOut(doc[1])))]
    /\ UNCHANGED <<dbUp, user, post, nextOid, now, hist, started>>

\* ------------------------------------------------------- POST /users
UserRejected(r, p) ==
    /\ Free(r)
    /\ ~ValidUser(p)
    /\ Answer(r, "create_user", p, 0, 422, "validation error")
    /\ started' = started + 1
    /\ UNCHANGED <<dbUp, user, post, nextOid, now, hist>>

CreateUser(r, p) ==
    /\ Free(r)
    /\ ValidUser(p)
    /\ dbUp
    /\ user' = CreateDocument(user, UserRecord(p), NewOid(nextOid), now)
    /\ nextOid' = nextOid + 1
    /\ hist' = HistUser("create")
    /\ req' = [req EXCEPT ![r] =
                 [Idle EXCEPT !.op = "create_user", !.pc = "reread", !.arg = p,
                              !.loc = OidStr(NewOid(nextOid)),
                              !.acc = 1,
                              !.wrote = Writes("user", user, user')]]
    /\ started' = started + 1
    /\ UNCHANGED <<dbUp, post, now>>

CreateUserFind(r) ==
    /\ Quiet
    /\ req[r].op = "create_user"
    /\ req[r].pc = "reread"
    /\ dbUp
    /\ LET doc == FindOne(user, ObjectId(req[r].loc))
       IN  req' = [req EXCEPT ![r] =
                     IF doc = None
                     THEN Return([req[r] EXCEPT !.acc = @ + 1], 500, "server error")
                     ELSE Return([req[r] EXCEPT !.acc = @ + 1], 200,
                                 UserOut(DocToOut(doc[1])))]
    /\ UNCHANGED <<dbUp, user, post, nextOid, now, hist, started>>

\* ------------------------------------------- POST /posts/{post_id}/like
\* _id = ObjectId(post_id) raises: 400
LikeInvalid(r, post_id) ==
    /\ Free(r)
    /\ ~ObjectIdValid(post_id)
    /\ Answer(r, "like", post_id, 0, 400, "Invalid post id")
    /\ started' = started + 1
    /\ UNCHANGED <<dbUp, user, post, nextOid, now, hist>>

\* _id = ObjectId(post_id); db.command('serverStatus')['localTime']
LikePost(r, post_id) ==
    /\ Free(r)
    /\ ObjectIdValid(post_id)
    /\ dbUp
    /\ req' = [req EXCEPT ![r] =
                 [Idle EXCEPT !.op = "like", !.pc = "update", !.arg = post_id,
                              !.loc = [oid |-> ObjectId(post_id), t |-> now,
                                       had |-> Matches(post, ObjectId(post_id)) # {},
                                       hit |-> FALSE],
                              !.acc = 1]]
    /\ started' = started + 1
    /\ UNCHANGED <<dbUp, user, post, nextOid, now, hist>>

\* db["post"].update_one({"_id": _id}, {"$inc": ..., "$set": ...})
LikeUpdateOne(r) ==
    /\ Quiet
    /\ req[r].op = "like"
    /\ req[r].pc = "update"
    /\ dbUp
    /\ post' = UpdateOne(post, req[r].loc.oid, req[r].loc.t)
    /\ req' = [req EXCEPT ![r].pc = "reread",
                          ![r].loc.hit = Matches(post, req[r].loc.oid) # {},
                          ![r].acc = @ + 1,
                          ![r].wrote = @ \o Writes("post", post, post')]
    /\ UNCHANGED <<dbUp, user, nextOid, now, hist, started>>

\* doc = db["post"].find_one({"_id": _id}); 404 when there is none
LikeFind(r) ==
    /\ Quiet
    /\ req[r].op = "like"
    /\ req[r].pc = "reread"
    /\ dbUp
    /\ LET doc == FindOne(post, req[r].loc.oid)
       IN  /\ req' = [req EXCEPT ![r] =
                        IF doc = None
                        THEN Return([req[r] EXCEPT !.acc = @ + 1], 404, "Post not found")
                        ELSE Return([req[r] EXCEPT !.acc = @ + 1], 200,
                                    PostOut(DocToOut(doc[1])))]
           /\ hist' = IF doc = None THEN hist
                      ELSE LET i == CHOOSE j \in DOMAIN post : post[j] = doc[1]
                           IN  [hist EXCEPT
                                  !.likeOk[i] =
                                      IF req[r].loc.hit THEN @ + 1 ELSE @]
    /\ UNCHANGED <<dbUp, user, post, nextOid, now, started>>

\* ------------------------------------------------------ store failures
\* the first store call of a handler raises (or db is None): the exception
\* leaves the handler, the response is a 500
FirstCallRaises(r, o, a) ==
    /\ Free(r)
    /\ Answer(r, o, a, 1, 500, "server error")
    /\ started' = started + 1
    /\ UNCHANGED <<dbUp, user, post, nextOid, now, hist>>

\* a later store call of the handler raises
StoreRaises(r) ==
    /\ Quiet
    /\ req[r].pc \in {"seed_post1", "seed_post2", "reread", "update"}
    /\ req' = [req EXCEPT ![r] =
                 Return([req[r] EXCEPT !.acc = @ + 1], 500, "server error")]
    /\ UNCHANGED <<dbUp, user, post, nextOid, now, hist, started>>

\* ------------------------------------------------------ specifications
Next ==
    \/ Tick
    \/ \E r \in Slots : Respond(r)
    \/ \E r \in Slots : ReadRoot(r)
    \/ \E r \in Slots : TestDatabase(r)
    \/ \E r \in Slots : SeedDemo(r)
    \/ \E r \in Slots : SeedPost1(r)
    \/ \E r \in Slots : SeedPost2(r)
    \/ \E r \in Slots : \E n \in Limits : ListPosts(r, n)
    \/ \E r \in Slots : \E n \in Limits : ListUsers(r, n)
    \/ \E r \in Slots : \E p \in PostPayloads : PostRejected(r, p)
    \/ \E r \in Slots : \E p \in PostPayloads : CreatePost(r, p)
    \/ \E r \in Slots : CreatePostFind(r)
    \/ \E r \in Slots : \E p \in UserPayloads : UserRejected(r, p)
    \/ \E r \in Slots : \E p \in UserPayloads : CreateUser(r, p)
    \/ \E r \in Slots : CreateUserFind(r)
    \/ \E r \in Slots : \E s \in LikeIds : LikeInvalid(r, s)
    \/ \E r \in Slots : \E s \in LikeIds : LikePost(r, s)
    \/ \E r \in Slots : LikeUpdateOne(r)
    \/ \E r \in Slots : LikeFind(r)

NextFault ==
    \/ Next
    \/ \E r \in Slots : TestDatabaseRaises(r)
    \/ \E r \in Slots : FirstCallRaises(r, "seed", <<>>)
    \/ \E r \in Slots : \E n \in Limits : FirstCallRaises(r, "list_posts", n)
    \/ \E r \in Slots : \E n \in Limits : FirstCallRaises(r, "list_users", n)
    \/ \E r \in Slots : \E p \in {q \in PostPayloads : ValidPost(q)} :
          FirstCallRaises(r, "create_post", p)
    \/ \E r \in Slots : \E p \in {q \in UserPayloads : ValidUser(q)} :
          FirstCallRaises(r, "create_user", p)
    \/ \E r \in Slots : \E s \in {q \in LikeIds : ObjectIdValid(q)} :
          FirstCallRaises(r, "like", s)
    \/ \E r \in Slots : StoreRaises(r)

\* the store answers every call
Spec == Init /\ [][Next]_vars

\* store calls may raise, and the process may run with no connection
SpecFault == InitFault /\ [][NextFault]_vars

\* -------------------------------------------------------------- claims
Done(r, o) == req[r].op = o /\ req[r].pc = "done"

\* like requests that have updated post i and not yet returned
LikesBehind(i) ==
    Cardinality({r \in Slots : /\ req[r].op = "like"
                               /\ req[r].pc = "reread"
                               /\ req[r].loc.hit
                               /\ req[r].loc.oid = post[i]["_id"]})

C2_LikeErrors ==
    \A r \in Slots :
        Done(r, "like") =>
            /\ ~ObjectIdValid(req[r].arg) =>
                  /\ req[r].resp.code = 400
                  /\ req[r].acc = 0
                  /\ req[r].wrote = <<>>
            /\ (ObjectIdValid(req[r].arg)
                  /\ Matches(post, ObjectId(req[r].arg)) = {}) =>
                  req[r].resp.code = 404
            /\ req[r].resp.code = 200 =>
                  /\ ObjectIdValid(req[r].arg)
                  /\ Matches(post, ObjectId(req[r].arg)) # {}
                  /\ req[r].resp.body.id = OidStr(ObjectId(req[r].arg))

\* a like request named the id of a stored user, which is no post: 404
C2_Witness ==
    \E r \in Slots :
        /\ Done(r, "like")
        /\ req[r].resp.code = 404
        /\ post # <<>>
        /\ Matches(user, ObjectId(req[r].arg)) # {}

\* C3 (as claimed): a GET /posts that follows a POST /posts lists the created
\* post with like_count = 0 and comment_count = 0, whatever the payload held.
C3_CreatedListedWithZeroCounters ==
    \A r \in Slots :
        (Done(r, "list_posts") /\ req[r].arg = DefaultLimit
            /\ req[r].resp.code = 200) =>
            \A i \in DOMAIN post :
                (hist.postBy[i] = "create" /\ "updated_at" \notin DOMAIN post[i]) =>
                    \E k \in DOMAIN req[r].resp.body :
                        /\ req[r].resp.body[k].id = OidStr(post[i]["_id"])
                        /\ req[r].resp.body[k].like_count = 0
                        /\ req[r].resp.body[k].comment_count = 0

\* the creation stamp of the stored post with string id s
StampOf(s) ==
    post[CHOOSE j \in DOMAIN post : OidStr(post[j]["_id"]) = s]["created_at"]

\* C4: GET /posts?limit=N with N >= 1 over M stored posts returns min(N, M)
\* posts, each a different stored post in its response shape, ordered from
\* the newest creation stamp down, and no post left out is newer than a post
\* returned.
C4_ListNewestFirst ==
    \A r \in Slots :
        (Done(r, "list_posts") /\ req[r].arg >= 1 /\ req[r].resp.code = 200) =>
            LET out == req[r].resp.body
            IN  /\ Len(out) = Min(req[r].arg, Len(post))
                /\ \A k \in DOMAIN out :
                      \E j \in DOMAIN post : out[k] = PostOut(DocToOut(post[j]))
                /\ \A k \in DOMAIN out : \A l \in DOMAIN out :
                      k < l => /\ out[k].id # out[l].id
                               /\ StampOf(out[k].id) >= StampOf(out[l].id)
                /\ \A j \in DOMAIN post :
                      (\A k \in DOMAIN out : out[k].id # OidStr(post[j]["_id"])) =>
                          \A k \in DOMAIN out :
                              post[j]["created_at"] <= StampOf(out[k].id)

\* limit=2 over three posts of two different stamps: the two returned are
\* newer than the one left out
C4_Witness ==
    \E r \in Slots :
        /\ Done(r, "list_posts")
        /\ req[r].arg = 2
        /\ Len(post) = 3
        /\ Len(req[r].resp.body) = 2
        /\ post[1]["created_at"] < post[2]["created_at"]
        /\ req[r].resp.body[1].id # OidStr(post[1]["_id"])
        /\ req[r].resp.body[2].id # OidStr(post[1]["_id"])

SeedUsers == {i \in DOMAIN user : hist.userBy[i] = "seed"}

SeedPosts == {i \in DOMAIN post : hist.postBy[i] = "seed"}

SeedsAt(pcs) == Cardinality({r \in Slots : req[r].pc \in pcs})

C6_NameRequiredNonEmpty ==
    \A r \in Slots :
        (req[r].op = "create_user" /\ req[r].arg.name \in {None, Some("")}) =>
            /\ req[r].pc = "done"
            /\ req[r].resp.code = 422
            /\ req[r].wrote = <<>>

BadEmails == {None, Some(<<"al", ".", "example", ".", "com">>),
              Some(<<"al", "@", "example">>)}

\* C7: a POST /users whose email is missing or no valid address ends with a
\* validation error in the step it arrives, and leaves the user collection
\* as it was.
C7_EmailRequired ==
    [][\A r \in Slots :
          (req[r].pc = "idle" /\ req'[r].op = "create_user"
              /\ req'[r].arg.email \in BadEmails) =>
              /\ req'[r].pc = "done"
              /\ req'[r].resp.code = 422
              /\ req'[r].acc = 0
              /\ user' = user]_vars

\* a payload with a malformed email was rejected while users are stored
C7_Witness ==
    \E r \in Slots :
        /\ Done(r, "create_user")
        /\ req[r].arg.email = Some(<<"al", "@", "example">>)
        /\ req[r].resp.code = 422
        /\ user # <<>>

DiagnosticFields == {"backend", "database", "database_url", "database_name",
                     "connection_status", "collections"}

\* C8: GET /test always answers 200 with the diagnostic object, whether db is
\* None, the listing works or the listing raises; the failure is told in the
\* database field, and collections holds at most 10 names.
C8_TestNeverFails ==
    \A r \in Slots :
        req[r].op = "test" =>
            /\ req[r].pc = "done"
            /\ req[r].resp.code = 200
            /\ DOMAIN req[r].resp.body = DiagnosticFields
            /\ Len(req[r].resp.body.collections) <= 10
            /\ ~dbUp => req[r].resp.body.database = <<"Available but not initialized">>
            /\ dbUp => req[r].resp.body.database[1] \in
                          {"Connected & Working", "Connected but Error: "}
            /\ req[r].wrote = <<>>

\* the database holds more than 10 collections and 10 are shown
C8_Witness ==
    \E r \in Slots :
        /\ Done(r, "test")
        /\ user # <<>>
        /\ post # <<>>
        /\ Len(CollectionNames(MaxOtherColls)) > 10
        /\ Len(req[r].resp.body.collections) = 10

\* the like request of slot r applies its update to post i in this step
LikeStepOn(r, i) ==
    /\ req[r].op = "like"
    /\ req[r].pc = "update"
    /\ req'[r].pc = "reread"
    /\ req[r].loc.oid = post[i]["_id"]

\* C9: in every step of every request no stored document disappears, no user
\* changes, and a post changes only by the update of a like request naming
\* it: like_count one higher, updated_at set, every other field as before;
\* at most one post changes in a step.
C9_Frame ==
    [][/\ Len(user') >= Len(user)
       /\ \A i \in DOMAIN user : user'[i] = user[i]
       /\ Len(post') >= Len(post)
       /\ \A i \in DOMAIN post :
             post'[i] # post[i] =>
                 /\ \E r \in Slots : LikeStepOn(r, i)
                 /\ DOMAIN post'[i] = DOMAIN post[i] \cup {"updated_at"}
                 /\ post'[i].like_count = post[i].like_count + 1
                 /\ \A k \in DOMAIN post[i] \ {"like_count", "updated_at"} :
                       post'[i][k] = post[i][k]
       /\ Cardinality({i \in DOMAIN post : post'[i] # post[i]}) <= 1]_vars

\* a liked post beside a post that was never updated
C9_Witness ==
    \E i \in DOMAIN post : \E j \in DOMAIN post :
        /\ "updated_at" \in DOMAIN post[i]
        /\ post[i].like_count = hist.base[i] + 1
        /\ "updated_at" \notin DOMAIN post[j]

\* C10 (as claimed): a request makes at most one write, and a request that
\* failed on the store has written nothing.
C10_OneWriteOrNone ==
    \A r \in Slots :
        /\ Len(req[r].wrote) <= 1
        /\ (req[r].pc = "done" /\ req[r].resp.code = 500) => req[r].wrote = <<>>

\* C10 (amended): every request but POST /seed makes at most one write, and
\* none when it is a read or is rejected (400, 404, 422); POST /seed makes its
\* three inserts one after the other, user, post, post, so that a failure
\* leaves those made before it.
C10_OneWriteExceptSeed ==
    \A r \in Slots :
        /\ req[r].op # "seed" => Len(req[r].wrote) <= 1
        /\ req[r].op \in {"root", "test", "list_posts", "list_users"} =>
              req[r].wrote = <<>>
        /\ (req[r].pc = "done" /\ req[r].resp.code \in {400, 404, 422}) =>
              req[r].wrote = <<>>
        /\ req[r].op = "seed" =>
              /\ Len(req[r].wrote) <= 3
              /\ \A k \in DOMAIN req[r].wrote :
                    req[r].wrote[k][1] = IF k = 1 THEN "user" ELSE "post"
              /\ req[r].acc <= 3

\* a POST /seed failed on its third insert: the user and one post stay
C10_Witness ==
    \E r \in Slots :
        /\ Done(r, "seed")
        /\ req[r].resp.code = 500
        /\ Len(req[r].wrote) = 2
        /\ Len(user) = 1
        /\ Len(post) = 1

====
